---------------------------- MODULE Spec2Model ----------------------------
(***************************************************************************)
(* The Snacks Fund dashboard: a Streamlit script (snacks_fund_app.py) that *)
(* reads the spreadsheet Snacks_Fund.xlsx, shows summary metrics and       *)
(* charts, filters the transaction table and exports the filtered table,   *)
(* and the launcher (fund-dashboard-launcher.py) that writes its own copy  *)
(* of that script to disk and starts Streamlit on it.                      *)
(*                                                                         *)
(* The repository holds two variants of the script: "app", the file        *)
(* src/snacks_fund_app.py, and "embedded", the text the launcher writes.   *)
(* A spreadsheet is a header row and rows of cells; a DataFrame is a list  *)
(* of column names, an index (the row labels) and one record per row.      *)
(* Amounts are non-negative integers (an amount in the smallest unit).     *)
(* Each variant reads Snacks_Fund.xlsx from its own path (beside the       *)
(* script, or the fixed path of the embedded script); source is the file   *)
(* the running script reads, exportFile the file beside it.                *)
(***************************************************************************)
EXTENDS Integers, Sequences, FiniteSets, TLC

VARIABLES
    scriptFile,         \* content of snacks_fund_app.py beside the launcher
    launcher,           \* the launcher's main(): "idle", "written", "streamlit"
    variant,            \* the script Streamlit runs: "none", "app", "embedded"
    source,             \* Snacks_Fund.xlsx: [exists, sheet]
    exportFile,         \* exported_fund_data.xlsx: [exists, sheet]
    pc,                 \* position of the script run
    df,                 \* the DataFrame read from the source, or None
    page,               \* the elements this run has put on the page, in order
    metrics,            \* the four st.metric values, or None
    contrib_by_person,  \* the "Contributions by Contributor" table, or None
    monthly_data,       \* the "Contributions vs Spending" table, or None
    widgets,            \* the filter selection of this run, or None
    filtered_df         \* the filtered DataFrame, or None

vars == <<scriptFile, launcher, variant, source, exportFile, pc, df, page,
          metrics, contrib_by_person, monthly_data, widgets, filtered_df>>

None == "None"

-----------------------------------------------------------------------------
(* Bounds of the model.                                                    *)

MaxRows == 2            \* rows of a source spreadsheet
MaxMonth == 2           \* calendar months 0 .. MaxMonth
MaxDay == 2             \* days 1 .. MaxDay of each month
MaxAmount == 2          \* amounts 0 .. MaxAmount
MaxBalance == 1         \* balances 0 .. MaxBalance

Names == <<"Alice", "Bob">>     \* contributor names, in string order

NameSet == {Names[i] : i \in 1..Len(Names)}

NameRank(n) == CHOOSE i \in 1..Len(Names) : Names[i] = n

-----------------------------------------------------------------------------
(* Generic helpers on sequences.                                           *)

Range(s) == {s[i] : i \in 1..Len(s)}

RECURSIVE SumSeq(_)
SumSeq(s) == IF s = <<>> THEN 0 ELSE Head(s) + SumSeq(Tail(s))

\* The sequences over S of length at most n.
SeqsUpTo(S, n) == UNION {[1..k -> S] : k \in 0..n}

\* The increasing enumeration of a finite set of integers.
RECURSIVE SortedSeq(_)
SortedSeq(S) ==
    IF S = {} THEN <<>>
    ELSE LET m == CHOOSE x \in S : \A y \in S : x <= y
         IN  <<m>> \o SortedSeq(S \ {m})

-----------------------------------------------------------------------------
(* Values.  A spreadsheet cell is a number, a text or an Excel datetime.   *)
(* In a DataFrame a number is an int, a text is a str and a datetime is a  *)
(* Timestamp; every column has a dtype.  The text of a date is written     *)
(* <<m, d>>; a contributor's name is a string.                             *)

NumberCell(n) == [kind |-> "number", v |-> n]
TextCell(s) == [kind |-> "text", v |-> s]
DatetimeCell(m, d) == [kind |-> "datetime", v |-> <<m, d>>]

Timestamp(m, d) == [month |-> m, day |-> d]
PyDate(m, d) == [month |-> m, day |-> d]

\* Timestamp.date() / Series.dt.date
date(ts) == PyDate(ts.month, ts.day)

\* a <= b on dates
DateLE(a, b) == a.month < b.month \/ (a.month = b.month /\ a.day <= b.day)

-----------------------------------------------------------------------------
(* pandas: read_excel, to_datetime, boolean masks, to_excel.               *)

ColumnPosition(header, c) == CHOOSE j \in 1..Len(header) : header[j] = c

\* The dtype pandas infers for a column of cells.
InferDtype(cells) ==
    IF cells # <<>> /\ \A i \in 1..Len(cells) : cells[i].kind = "datetime"
    THEN "datetime64"
    ELSE IF cells # <<>> /\ \A i \in 1..Len(cells) : cells[i].kind = "number"
         THEN "int64"
         ELSE "object"

ReadCell(c) == IF c.kind = "datetime" THEN Timestamp(c.v[1], c.v[2]) ELSE c.v

\* pd.read_excel(file_path): the first row is the header, the index is 0..n-1.
read_excel(sheet) ==
    LET n == Len(sheet.cells)
        cols == Range(sheet.header)
        column(c) == [i \in 1..n |-> sheet.cells[i][ColumnPosition(sheet.header, c)]]
    IN  [columns |-> sheet.header,
         dtypes  |-> [c \in cols |-> InferDtype(column(c))],
         index   |-> [i \in 1..n |-> i - 1],
         rows    |-> [i \in 1..n |-> [c \in cols |-> ReadCell(column(c)[i])]]]

\* df['Date'] = pd.to_datetime(df['Date'])
to_datetime(d) ==
    IF d.dtypes["Date"] = "datetime64" THEN d
    ELSE [d EXCEPT
            !.dtypes = [@ EXCEPT !["Date"] = "datetime64"],
            !.rows = [i \in 1..Len(d.rows) |->
                        [d.rows[i] EXCEPT !["Date"] = Timestamp(@[1], @[2])]]]

\* d[c] > 0 and d[c] == v: boolean Series over the rows of d.
IsPositive(d, c) == [i \in 1..Len(d.rows) |-> d.rows[i][c] > 0]

IsEqual(d, c, v) == [i \in 1..Len(d.rows) |-> d.rows[i][c] = v]

\* d[mask]: the rows whose mask is true, with their index labels, in order.
BooleanMask(d, mask) ==
    LET pos == SortedSeq({i \in 1..Len(d.rows) : mask[i]})
    IN  [d EXCEPT !.index = [k \in 1..Len(pos) |-> d.index[pos[k]]],
                  !.rows = [k \in 1..Len(pos) |-> d.rows[pos[k]]]]

WriteCell(dtype, v) ==
    CASE dtype = "datetime64" -> DatetimeCell(v.month, v.day)
      [] dtype = "int64" -> NumberCell(v)
      [] OTHER -> TextCell(v)

\* d.to_excel(export_path, index=False): a fresh sheet, a header row and one
\* row of cells per row of d; the index is not written.
to_excel(d) ==
    [header |-> d.columns,
     cells  |-> [i \in 1..Len(d.rows) |->
                   [j \in 1..Len(d.columns) |->
                      WriteCell(d.dtypes[d.columns[j]], d.rows[i][d.columns[j]])]]]

-----------------------------------------------------------------------------
(* Loader: the column check.                                               *)

\* A check list that leaves Balance out.
required_columns_without_balance == <<"Date", "Contributors", "Spend", "Contribution">>

required_columns == <<"Date", "Contributors", "Spend", "Contribution", "Balance">>

\* The columns the check loop finds absent, in check order.
MissingColumns(d) ==
    SelectSeq(required_columns, LAMBDA c : c \notin Range(d.columns))

\* A check loop that does not leave at the first absent column.
AllColumnErrors(d) ==
    [k \in 1..Len(MissingColumns(d)) |->
       [level |-> "error", text |-> "Required column not found in Excel file",
        arg |-> MissingColumns(d)[k]]]

\* for col in required_columns: if col not in df.columns: st.error(...); stop.
\* The loop leaves at the first absent column: the errors it shows.
ColumnErrors(d) ==
    IF MissingColumns(d) = <<>> THEN <<>>
    ELSE <<[level |-> "error", text |-> "Required column not found in Excel file",
            arg |-> Head(MissingColumns(d))]>>

-----------------------------------------------------------------------------
(* Aggregator.                                                             *)

ColumnOf(d, c) == [i \in 1..Len(d.rows) |-> d.rows[i][c]]

\* The balance of the first row instead of the last.
first_balance(d) ==
    IF Len(d.rows) = 0 THEN 0 ELSE d.rows[1]["Balance"]

\* df['Balance'].iloc[-1] if not df.empty else 0
current_balance(d) ==
    IF Len(d.rows) = 0 THEN 0 ELSE d.rows[Len(d.rows)]["Balance"]

\* Series.nunique() of the Contributors column
nunique(d) == Cardinality(Range(ColumnOf(d, "Contributors")))

\* "Number of Contributors": the app counts the contributors of the rows with
\* a positive contribution, the embedded script those of all rows.
num_contributors(d, v) ==
    IF v = "app"
    THEN nunique(BooleanMask(d, IsPositive(d, "Contribution")))
    ELSE nunique(d)

display_summary_metrics(d, v) ==
    [total_contributions |-> SumSeq(ColumnOf(d, "Contribution")),
     total_spending      |-> SumSeq(ColumnOf(d, "Spend")),
     current_balance     |-> current_balance(d),
     num_contributors    |-> num_contributors(d, v)]

\* d.groupby('Contributors')['Contribution'].sum().reset_index(): one row per
\* contributor of d, in the order of the names.
GroupBySum(d) ==
    LET keys == SortedSeq({NameRank(n) : n \in Range(ColumnOf(d, "Contributors"))})
        total(n) == SumSeq(ColumnOf(
                       BooleanMask(d, IsEqual(d, "Contributors", n)),
                       "Contribution"))
    IN  [k \in 1..Len(keys) |->
           [Contributors |-> Names[keys[k]], Contribution |-> total(Names[keys[k]])]]

IsDescending(t) ==
    \A i \in 1..Len(t) - 1 : t[i]["Contribution"] >= t[i + 1]["Contribution"]

\* t.sort_values('Contribution', ascending=False): the rows of t in descending
\* order; the order among equal sums is not fixed.
SortValuesDescending(t) ==
    {[k \in 1..Len(t) |-> t[p[k]]] :
        p \in {q \in [1..Len(t) -> 1..Len(t)] :
                 /\ \A i, j \in 1..Len(t) : i # j => q[i] # q[j]
                 /\ IsDescending([k \in 1..Len(t) |-> t[q[k]]])}}

\* The tables the "Contributions by Contributor" chart may be given.
ContribByPerson(d, v) ==
    IF v = "app"
    THEN {SelectSeq(GroupBySum(BooleanMask(d, IsPositive(d, "Contribution"))),
                    LAMBDA e : e["Contribution"] > 0)}
    ELSE SortValuesDescending(GroupBySum(d))

\* Bins only for the months that have a row.
MonthsPresent(d) == {d.rows[i]["Date"].month : i \in 1..Len(d.rows)}

\* The months resample('M') makes bins for: every month from the month of the
\* earliest row to the month of the latest row.
ResampleMonths(d) ==
    LET months == {d.rows[i]["Date"].month : i \in 1..Len(d.rows)}
    IN  IF months = {} THEN {}
        ELSE LET first == CHOOSE a \in months : \A b \in months : a <= b
                 last == CHOOSE a \in months : \A b \in months : b <= a
             IN  first..last

\* df.resample('M', on='Date').agg({'Contribution': 'sum', 'Spend': 'sum'})
\*   .reset_index(): one row per bin, labelled by its month, in month order.
Resample(d) ==
    LET bins == SortedSeq(ResampleMonths(d))
        inMonth(m) ==
            BooleanMask(d, [i \in 1..Len(d.rows) |-> d.rows[i]["Date"].month = m])
    IN  [k \in 1..Len(bins) |->
           [Month        |-> bins[k],
            Contribution |-> SumSeq(ColumnOf(inMonth(bins[k]), "Contribution")),
            Spend        |-> SumSeq(ColumnOf(inMonth(bins[k]), "Spend"))]]

-----------------------------------------------------------------------------
(* Presenter: the filter.                                                  *)

TransactionTypes == {"All", "Contribution", "Spending"}

\* df['Date'].min().date(), df['Date'].max().date(): the defaults of the two
\* date inputs (d has a row).
min_date(d) ==
    date(CHOOSE t \in Range(ColumnOf(d, "Date")) :
            \A u \in Range(ColumnOf(d, "Date")) : DateLE(t, u))

max_date(d) ==
    date(CHOOSE t \in Range(ColumnOf(d, "Date")) :
            \A u \in Range(ColumnOf(d, "Date")) : DateLE(u, t))

\* ['All'] + sorted(df['Contributors'].unique().tolist())
contributors(d) == {"All"} \cup Range(ColumnOf(d, "Contributors"))

\* filtered_df['Date'].dt.date >= x, <= x and < x: boolean Series.
IsOnOrAfter(d, x) == [i \in 1..Len(d.rows) |-> DateLE(x, date(d.rows[i]["Date"]))]

IsOnOrBefore(d, x) == [i \in 1..Len(d.rows) |-> DateLE(date(d.rows[i]["Date"]), x)]

IsBefore(d, x) ==
    [i \in 1..Len(d.rows) |->
       DateLE(date(d.rows[i]["Date"]), x) /\ date(d.rows[i]["Date"]) # x]

\* a & b on boolean Series.
MaskAnd(a, b) == [i \in 1..Len(a) |-> a[i] /\ b[i]]

\* A date range that leaves its end date out.
DateRangeMaskExclusive(d, w) ==
    BooleanMask(d, MaskAnd(IsOnOrAfter(d, w.start_date), IsBefore(d, w.end_date)))

DateRangeMask(d, w) ==
    BooleanMask(d, MaskAnd(IsOnOrAfter(d, w.start_date),
                           IsOnOrBefore(d, w.end_date)))

ContributorMask(d, w) ==
    IF w.selected_contributor # "All"
    THEN BooleanMask(d, IsEqual(d, "Contributors", w.selected_contributor))
    ELSE d

\* "Spending" tested on the Contribution column.
TransactionTypeMaskSameColumn(d, w) ==
    IF w.transaction_type = "Contribution"
    THEN BooleanMask(d, IsPositive(d, "Contribution"))
    ELSE IF w.transaction_type = "Spending"
         THEN BooleanMask(d, IsPositive(d, "Contribution"))
         ELSE d

TransactionTypeMask(d, w) ==
    IF w.transaction_type = "Contribution"
    THEN BooleanMask(d, IsPositive(d, "Contribution"))
    ELSE IF w.transaction_type = "Spending"
         THEN BooleanMask(d, IsPositive(d, "Spend"))
         ELSE d

\* The three narrowing steps, in the order of the script.
FilterData(d, w) == TransactionTypeMask(ContributorMask(DateRangeMask(d, w), w), w)

-----------------------------------------------------------------------------
(* Page elements: messages, metrics, charts, the table.                    *)

Message(level, text, arg) == [level |-> level, text |-> text, arg |-> arg]

NotFoundMessages ==
    <<Message("error", "Excel file not found at", "file_path"),
      Message("info", "Please ensure the Excel file exists at the specified location.", None)>>

ExceptionMessage(e) == Message("error", "Error", e)

MetricsElement == Message("metric", "summary metrics", None)
ContribChart == Message("plotly_chart", "Contributions by Contributor", None)
MonthlyChart == Message("plotly_chart", "Contributions vs Spending", None)
TableElement == Message("dataframe", "Transaction Details", None)

Shown(element, pg) == \E i \in 1..Len(pg) : pg[i] = element

\* A file that does not exist, and a file that holds a sheet.
EmptySheet == [header |-> <<>>, cells |-> <<>>]
NoFile == [exists |-> FALSE, sheet |-> EmptySheet]
FileOf(sh) == [exists |-> TRUE, sheet |-> sh]

\* Where the run goes after an error is shown: the app calls wait_for_exit()
\* and returns, the embedded script calls st.stop() for a load error and
\* falls off its end after an exception.
AfterError(v) == IF v = "app" THEN "wait_for_exit" ELSE "done"

-----------------------------------------------------------------------------
(* The launcher.                                                           *)

Scripts == {"app", "embedded"}

\* A write that leaves an existing file alone.
KeptScript(old) == IF old = "absent" THEN "embedded" ELSE old

\* open(streamlit_script_path, "w"); f.write(<the embedded text>): the file's
\* content after the write, whatever it held before.
WrittenScript(old) == "embedded"

\* main(), up to the end of the with block.
LauncherWrite ==
    /\ launcher = "idle"
    /\ variant = "none"
    /\ launcher' = "written"
    /\ scriptFile' = WrittenScript(scriptFile)
    /\ UNCHANGED <<variant, source, exportFile, pc, df, page, metrics,
                   contrib_by_person, monthly_data, widgets, filtered_df>>

\* subprocess.run([sys.executable, "-m", "streamlit", "run", streamlit_script_path])
LauncherRun ==
    /\ launcher = "written"
    /\ launcher' = "streamlit"
    /\ variant' = scriptFile
    /\ pc' = IF scriptFile \in Scripts THEN "start" ELSE "off"
    /\ UNCHANGED <<scriptFile, source, exportFile, df, page, metrics,
                   contrib_by_person, monthly_data, widgets, filtered_df>>

\* streamlit run snacks_fund_app.py, without the launcher.
DirectRun ==
    /\ launcher = "idle"
    /\ variant = "none"
    /\ scriptFile \in Scripts
    /\ variant' = scriptFile
    /\ pc' = "start"
    /\ UNCHANGED <<scriptFile, launcher, source, exportFile, df, page, metrics,
                   contrib_by_person, monthly_data, widgets, filtered_df>>

-----------------------------------------------------------------------------
(* One run of the script.                                                  *)

deployment == <<scriptFile, launcher, variant, source>>

\* if not os.path.exists(file_path): ...
SourceNotFound ==
    /\ pc = "start"
    /\ ~source.exists
    /\ page' = page \o NotFoundMessages
    /\ pc' = AfterError(variant)
    /\ UNCHANGED <<deployment, exportFile, df, metrics, contrib_by_person,
                   monthly_data, widgets, filtered_df>>

\* The frame the Loader makes of a sheet that passes the column check.
LoadFrame(sheet) == to_datetime(read_excel(sheet))

\* df = pd.read_excel(file_path); a required column is absent.
SchemaError ==
    /\ pc = "start"
    /\ source.exists
    /\ ColumnErrors(read_excel(source.sheet)) # <<>>
    /\ df' = read_excel(source.sheet)
    /\ page' = page \o ColumnErrors(read_excel(source.sheet))
    /\ pc' = AfterError(variant)
    /\ UNCHANGED <<deployment, exportFile, metrics, contrib_by_person,
                   monthly_data, widgets, filtered_df>>

\* df = pd.read_excel(file_path); the column check passes; to_datetime.
Load ==
    /\ pc = "start"
    /\ source.exists
    /\ ColumnErrors(read_excel(source.sheet)) = <<>>
    /\ df' = LoadFrame(source.sheet)
    /\ pc' = "loaded"
    /\ UNCHANGED <<deployment, exportFile, page, metrics, contrib_by_person,
                   monthly_data, widgets, filtered_df>>

DisplaySummaryMetrics ==
    /\ pc = "loaded"
    /\ metrics' = display_summary_metrics(df, variant)
    /\ page' = Append(page, MetricsElement)
    /\ pc' = "summary"
    /\ UNCHANGED <<deployment, exportFile, df, contrib_by_person,
                   monthly_data, widgets, filtered_df>>

\* The charts: contributions by contributor, contributions vs spending.
Charts ==
    /\ pc = "summary"
    /\ contrib_by_person' \in ContribByPerson(df, variant)
    /\ monthly_data' = Resample(df)
    /\ page' = page \o <<ContribChart, MonthlyChart>>
    /\ pc' = "charts"
    /\ UNCHANGED <<deployment, exportFile, df, metrics, widgets,
                   filtered_df>>

\* The dates the two date inputs can return for d: the days of the months
\* the rows span (of the first month when d has no row).
SelectableDates(d) ==
    LET months == IF Len(d.rows) = 0 THEN {0} ELSE ResampleMonths(d)
    IN  {PyDate(m, dd) : m \in months, dd \in 1..MaxDay}

\* The selections the widgets can return in a run.
Selections(d) ==
    [start_date : SelectableDates(d), end_date : SelectableDates(d),
     selected_contributor : contributors(d), transaction_type : TransactionTypes]

\* The default selection: the full span of dates, "All", "All".
DefaultSelection(d) ==
    [start_date |-> min_date(d), end_date |-> max_date(d),
     selected_contributor |-> "All", transaction_type |-> "All"]

\* "Transaction Details": the widgets return a selection, the table is filtered
\* and shown.
Filter ==
    /\ pc = "charts"
    /\ \E w \in Selections(df) :
         /\ widgets' = w
         /\ filtered_df' = FilterData(df, w)
    /\ page' = Append(page, TableElement)
    /\ pc' = "filtered"
    /\ UNCHANGED <<deployment, exportFile, df, metrics,
                   contrib_by_person, monthly_data>>

\* df['Date'].min() of a frame with no row is NaT, which the date input may
\* refuse: the exception handler shows the error.
FilterException ==
    /\ pc = "charts"
    /\ Len(df.rows) = 0
    /\ page' = Append(page, ExceptionMessage("date_input"))
    /\ pc' = AfterError(variant)
    /\ UNCHANGED <<deployment, exportFile, df, metrics, contrib_by_person,
                   monthly_data, widgets, filtered_df>>

\* The "Export Filtered Data" button was not clicked: the run ends.
NoExport ==
    /\ pc = "filtered"
    /\ pc' = "done"
    /\ UNCHANGED <<deployment, exportFile, df, page, metrics,
                   contrib_by_person, monthly_data, widgets, filtered_df>>

\* An export that adds its rows to the sheet already there.
AppendedFile(old, d) ==
    IF old.exists
    THEN FileOf([header |-> old.sheet.header,
                 cells |-> old.sheet.cells \o to_excel(d).cells])
    ELSE FileOf(to_excel(d))

\* The file to_excel leaves at export_path, whatever was there before.
ExportedFile(old, d) == FileOf(to_excel(d))

\* The button was clicked and filtered_df.to_excel(export_path, index=False)
\* succeeds.
Export ==
    /\ pc = "filtered"
    /\ exportFile' = ExportedFile(exportFile, filtered_df)
    /\ page' = Append(page, Message("success", "Data exported to", "export_path"))
    /\ pc' = "done"
    /\ UNCHANGED <<deployment, df, metrics, contrib_by_person, monthly_data,
                   widgets, filtered_df>>

\* The button was clicked and to_excel raises (permissions, disk full).
ExportFails ==
    /\ pc = "filtered"
    /\ page' = Append(page, ExceptionMessage("to_excel"))
    /\ pc' = AfterError(variant)
    /\ UNCHANGED <<deployment, exportFile, df, metrics, contrib_by_person,
                   monthly_data, widgets, filtered_df>>

\* wait_for_exit(): sys has no ps1 under Streamlit, so the note is shown and
\* input() is called.  input() either blocks on the terminal Streamlit was
\* started from, or fails at once (no stdin) and the failure is swallowed.
WaitForExitMessage == Message("info", "Press Enter to exit...", None)

InputOutcomes == {"blocked", "done"}

WaitForExit ==
    /\ pc = "wait_for_exit"
    /\ page' = Append(page, WaitForExitMessage)
    /\ pc' \in InputOutcomes
    /\ UNCHANGED <<deployment, exportFile, df, metrics, contrib_by_person,
                   monthly_data, widgets, filtered_df>>

\* Enter is pressed in the terminal: input() returns and main() returns.
PressEnter ==
    /\ pc = "blocked"
    /\ pc' = "done"
    /\ UNCHANGED <<deployment, exportFile, df, page, metrics,
                   contrib_by_person, monthly_data, widgets, filtered_df>>

\* An interaction with the page: Streamlit runs the script again from its top;
\* nothing of the last run is kept but the files.
Rerun ==
    /\ pc = "done"
    /\ pc' = "start"
    /\ df' = None
    /\ page' = <<>>
    /\ metrics' = None
    /\ contrib_by_person' = None
    /\ monthly_data' = None
    /\ widgets' = None
    /\ filtered_df' = None
    /\ UNCHANGED <<deployment, exportFile>>

-----------------------------------------------------------------------------
(* Source spreadsheets.                                                    *)

\* The columns of the spreadsheet, in the order of the sheet.
SourceColumns == <<"Date", "Contributors", "Spend", "Contribution", "Balance">>

\* The Date cells of the dates ds (pairs <<month, day>>), all of one kind.
DateCells(kind, ds) ==
    {IF kind = "datetime" THEN DatetimeCell(md[1], md[2]) ELSE TextCell(md) :
        md \in ds}

\* Rows of cells by column name; a flow is <<spend, contribution>>.
SourceRows(dates, names, flows, balances) ==
    {[Date |-> d, Contributors |-> TextCell(n), Spend |-> NumberCell(f[1]),
      Contribution |-> NumberCell(f[2]), Balance |-> NumberCell(b)] :
        d \in dates, n \in names, f \in flows, b \in balances}

\* The sheet with the columns of header h and the rows rs.
SheetOf(h, rs) ==
    [header |-> h,
     cells  |-> [i \in 1..Len(rs) |-> [j \in 1..Len(h) |-> rs[i][h[j]]]]]

\* The source is absent, or lacks at least one required column, or is a
\* complete sheet of at most MaxRows rows drawn from the given values, whose
\* Date column is all datetime cells or all text cells.
InitOf(ds, names, flows, balances) ==
    /\ scriptFile \in Scripts \cup {"other", "absent"}
    /\ launcher = "idle"
    /\ variant = "none"
    /\ \/ source = NoFile
       \/ \E S \in (SUBSET Range(SourceColumns)) \ {Range(SourceColumns)},
             k \in 0..1 :
            \E rs \in [1..k -> SourceRows({DatetimeCell(0, 1)}, {Names[1]},
                                          {<<0, 1>>}, {1})] :
               source = FileOf(SheetOf(SelectSeq(SourceColumns,
                                                 LAMBDA c : c \in S), rs))
       \/ \E kind \in {"datetime", "text"}, k \in 0..MaxRows :
            \E rs \in [1..k -> SourceRows(DateCells(kind, ds), names, flows,
                                          balances)] :
               source = FileOf(SheetOf(SourceColumns, rs))
    /\ exportFile = NoFile
    /\ pc = "off"
    /\ df = None
    /\ page = <<>>
    /\ metrics = None
    /\ contrib_by_person = None
    /\ monthly_data = None
    /\ widgets = None
    /\ filtered_df = None

-----------------------------------------------------------------------------
(* Specifications.                                                         *)

StartSteps == LauncherWrite \/ LauncherRun \/ DirectRun

LoadSteps == SourceNotFound \/ SchemaError \/ Load

AggregateSteps == DisplaySummaryMetrics \/ Charts

FilterSteps == Filter \/ FilterException

ExportSteps == NoExport \/ Export \/ ExportFails

ExitSteps == WaitForExit \/ PressEnter

PureFlows == {<<0, 1>>, <<1, 0>>}

\* The session: every step of the launcher and of the script, run after run.
\* One contributor, one date; every row is a pure contribution or a pure
\* expense, with any balance.
Init == InitOf({<<0, 1>>}, {Names[1]}, PureFlows, 0..MaxBalance)

Next ==
    StartSteps \/ LoadSteps \/ AggregateSteps \/ FilterSteps \/ ExportSteps
        \/ ExitSteps \/ Rerun

Spec == Init /\ [][Next]_vars

\* The filter: one run up to the filtered table.  Two dates in different
\* months, the earlier one on the later day of its month.
InitFilter == InitOf({<<0, MaxDay>>, <<1, 1>>}, NameSet, PureFlows, {0})

NextFilter == StartSteps \/ LoadSteps \/ AggregateSteps \/ FilterSteps

SpecFilter == InitFilter /\ [][NextFilter]_vars

\* The aggregations: one run up to the charts.  Rows in any month, with any
\* contribution or a unit expense.
InitAgg ==
    InitOf((0..MaxMonth) \X {1}, NameSet,
           {<<0, c>> : c \in 0..MaxAmount} \cup {<<1, 0>>}, {0})

NextAgg == StartSteps \/ LoadSteps \/ AggregateSteps

SpecAgg == InitAgg /\ [][NextAgg]_vars

-----------------------------------------------------------------------------
(* Properties.                                                             *)

RequiredFields == {"Date", "Contributors", "Spend", "Contribution", "Balance"}

\* The required columns the source sheet does not have.
Absent == RequiredFields \ Range(source.sheet.header)

\* The run has shown the error that names column c as missing.
NamedMissing(c) ==
    \E i \in 1..Len(page) :
       /\ page[i].level = "error"
       /\ page[i].text = "Required column not found in Excel file"
       /\ page[i].arg = c

\* The run is past its load.
PastLoad == pc \notin {"off", "start"}

\* A row satisfies every active predicate of the selection w.
Satisfies(r, w) ==
    /\ DateLE(w.start_date, date(r["Date"]))
    /\ DateLE(date(r["Date"]), w.end_date)
    /\ (w.selected_contributor # "All" => r["Contributors"] = w.selected_contributor)
    /\ (w.transaction_type = "Contribution" => r["Contribution"] > 0)
    /\ (w.transaction_type = "Spending" => r["Spend"] > 0)

\* C1: the filtered table is exactly the ledger rows that satisfy every active
\* predicate of the selection (date range inclusive at both ends, contributor,
\* transaction type), each once and in source order, with their values.
C1_FilterExact ==
    Shown(TableElement, page) =>
       /\ filtered_df.columns = df.columns
       /\ filtered_df.index =
             SortedSeq({df.index[i] : i \in {j \in 1..Len(df.rows) :
                                               Satisfies(df.rows[j], widgets)}})
       /\ Len(filtered_df.rows) = Len(filtered_df.index)
       /\ \A k \in 1..Len(filtered_df.rows) :
             filtered_df.rows[k] = df.rows[filtered_df.index[k] + 1]

\* A selection with all three filters active keeps one of two rows.
C1_Witness ==
    /\ Shown(TableElement, page)
    /\ Len(df.rows) = 2
    /\ Len(filtered_df.rows) = 1
    /\ widgets.selected_contributor # "All"
    /\ widgets.transaction_type = "Spending"
    /\ widgets.start_date = widgets.end_date
    /\ filtered_df.index = <<1>>

\* The balance cell of the last row of the source sheet; 0 for no row.
LastBalanceOfSource ==
    IF Len(source.sheet.cells) = 0 THEN 0
    ELSE source.sheet.cells[Len(source.sheet.cells)]
            [ColumnPosition(source.sheet.header, "Balance")].v

\* C2: the Current Balance metric is the balance of the last row of the source
\* in source order, 0 for a ledger without rows, in every state of the run,
\* whatever selection the filter was given.
C2_CurrentBalance ==
    Shown(MetricsElement, page) => metrics.current_balance = LastBalanceOfSource

\* The filter has dropped the last row and the metric still shows its balance,
\* which differs from the balance of the last row of the table.
C2_Witness ==
    /\ Shown(TableElement, page)
    /\ Len(df.rows) = 2
    /\ Len(filtered_df.rows) = 1
    /\ filtered_df.index = <<0>>
    /\ filtered_df.rows[1]["Balance"] # metrics.current_balance
    /\ metrics.current_balance = LastBalanceOfSource

\* C3: when a required column is absent, the run shows the error that names an
\* absent column (Balance when only Balance is absent) and halts; no metric,
\* no chart and no table is put on the page in that run.
C3_SchemaErrorBeforeAggregation ==
    (source.exists /\ Absent # {} /\ PastLoad) =>
       /\ pc \in {"wait_for_exit", "blocked", "done"}
       /\ \E c \in Absent : NamedMissing(c)
       /\ ~Shown(MetricsElement, page)
       /\ ~Shown(ContribChart, page)
       /\ ~Shown(MonthlyChart, page)
       /\ ~Shown(TableElement, page)

\* Only Balance is absent and the run has ended with the error that names it.
C3_Witness ==
    /\ source.exists
    /\ Absent = {"Balance"}
    /\ pc = "done"
    /\ NamedMissing("Balance")

\* C4 as stated: every absent column is named in the run.
C4_EveryMissingColumnReported ==
    (source.exists /\ Absent # {} /\ PastLoad) =>
       \A c \in Absent : NamedMissing(c)

\* The first absent column in check order.
FirstAbsent ==
    CHOOSE c \in Absent :
       \A e \in Absent :
          ColumnPosition(SourceColumns, c) <= ColumnPosition(SourceColumns, e)

\* C4 amended: the run names exactly one absent column, the first one in check
\* order (Date, Contributors, Spend, Contribution, Balance).
C4_FirstMissingColumnReported ==
    (source.exists /\ Absent # {} /\ PastLoad) =>
       \A c \in RequiredFields : NamedMissing(c) <=> c = FirstAbsent

\* Several columns are absent and the run has ended.
C4_Witness ==
    /\ source.exists
    /\ Cardinality(Absent) >= 2
    /\ pc = "done"
    /\ NamedMissing(FirstAbsent)

\* The sum of column c over the ledger rows of contributor n.
SumOfContributor(c, n) ==
    SumSeq([i \in 1..Len(df.rows) |->
              IF df.rows[i]["Contributors"] = n THEN df.rows[i][c] ELSE 0])

\* The sum of column c over the ledger rows of month m.
SumOfMonth(c, m) ==
    SumSeq([i \in 1..Len(df.rows) |->
              IF df.rows[i]["Date"].month = m THEN df.rows[i][c] ELSE 0])

TotalOf(n) == SumOfContributor("Contribution", n)

\* C5: the contributions-by-contributor table has one entry for each
\* contributor whose summed contribution is not zero and for no other, each
\* holding that sum, in descending order of the sums.
C5_ContributionsByContributor ==
    Shown(ContribChart, page) =>
       /\ {contrib_by_person[k]["Contributors"] : k \in 1..Len(contrib_by_person)}
             = {n \in NameSet : TotalOf(n) # 0}
       /\ Len(contrib_by_person) = Cardinality({n \in NameSet : TotalOf(n) # 0})
       /\ \A k \in 1..Len(contrib_by_person) :
             contrib_by_person[k]["Contribution"]
                = TotalOf(contrib_by_person[k]["Contributors"])
       /\ IsDescending(contrib_by_person)

MonthsOfLedger == {df.rows[i]["Date"].month : i \in 1..Len(df.rows)}

MonthsOfTable == {monthly_data[k].Month : k \in 1..Len(monthly_data)}

\* The monthly table is in month order without a repeated month, and each row
\* holds the sums of its month's ledger rows.
MonthlyRowsRight ==
    /\ \A k \in 1..Len(monthly_data) - 1 :
          monthly_data[k].Month < monthly_data[k + 1].Month
    /\ \A k \in 1..Len(monthly_data) :
          /\ monthly_data[k].Contribution =
                SumOfMonth("Contribution", monthly_data[k].Month)
          /\ monthly_data[k].Spend = SumOfMonth("Spend", monthly_data[k].Month)

\* C6 as stated: one row for each month that has a ledger row and for no
\* other month.
C6_OneRowPerMonthPresent ==
    Shown(MonthlyChart, page) =>
       MonthsOfTable = MonthsOfLedger /\ MonthlyRowsRight

\* C6 amended: one row for each month from the month of the earliest ledger
\* row to the month of the latest, the months without a ledger row included
\* (with sums 0), in month order.
C6_OneRowPerMonthOfSpan ==
    Shown(MonthlyChart, page) =>
       /\ MonthsOfTable =
             {m \in 0..MaxMonth : /\ \E a \in MonthsOfLedger : a <= m
                                  /\ \E b \in MonthsOfLedger : m <= b}
       /\ MonthlyRowsRight

\* Two ledger rows two months apart: the table has a row for the month between.
C6_Witness ==
    /\ Shown(MonthlyChart, page)
    /\ Cardinality(MonthsOfLedger) = 2
    /\ Len(monthly_data) = 3
    /\ monthly_data[2].Contribution = 0
    /\ monthly_data[2].Spend = 0
    /\ monthly_data[1].Contribution + monthly_data[3].Contribution > 0

\* The dates of the ledger rows.
DatesOfLedger == {date(df.rows[i]["Date"]) : i \in 1..Len(df.rows)}

\* The selection is the identity selection of the ledger: from its earliest
\* date to its latest, every contributor, every transaction type.
IdentitySelection ==
    /\ widgets.start_date \in DatesOfLedger
    /\ \A x \in DatesOfLedger : DateLE(widgets.start_date, x)
    /\ widgets.end_date \in DatesOfLedger
    /\ \A x \in DatesOfLedger : DateLE(x, widgets.end_date)
    /\ widgets.selected_contributor = "All"
    /\ widgets.transaction_type = "All"

\* C7: under the default selection (earliest date to latest date, "All",
\* "All") the filtered table is the whole ledger: same rows, order and values.
C7_IdentityFilter ==
    (Shown(TableElement, page) /\ IdentitySelection) =>
       /\ filtered_df = df
       /\ widgets = DefaultSelection(df)

\* The default selection on a ledger of two rows on different dates, the
\* later date first.
C7_Witness ==
    /\ Shown(TableElement, page)
    /\ IdentitySelection
    /\ Len(df.rows) = 2
    /\ widgets.start_date # widgets.end_date
    /\ date(df.rows[1]["Date"]) = widgets.end_date
    /\ Len(filtered_df.rows) = 2

\* C8: a failed export is reported and leaves the run neither halted nor
\* blocked.
C8_ExportFailureNotFatal ==
    Shown(ExceptionMessage("to_excel"), page) => pc # "blocked"

\* The run has just reported a successful export.
Exported == page # <<>> /\ page[Len(page)].level = "success"

\* C9: after an export the file holds exactly the columns and rows of the
\* filtered table, whatever it held before, and the Loader (column check,
\* read, date conversion) makes of it a frame with the same columns, rows,
\* order and values.
C9_ExportRoundTrip ==
    Exported =>
       /\ exportFile.exists
       /\ exportFile.sheet.header = filtered_df.columns
       /\ Len(exportFile.sheet.cells) = Len(filtered_df.rows)
       /\ ColumnErrors(read_excel(exportFile.sheet)) = <<>>
       /\ LoadFrame(exportFile.sheet).columns = filtered_df.columns
       /\ LoadFrame(exportFile.sheet).rows = filtered_df.rows

\* A source with text dates, filtered to one of its two rows and exported.
C9_Witness ==
    /\ Exported
    /\ Len(df.rows) = 2
    /\ Len(filtered_df.rows) = 1
    /\ source.sheet.cells[1][1].kind = "text"
    /\ exportFile.sheet.cells[1][1].kind = "datetime"

\* The number of distinct contributors over all rows of the source.
ContributorsOfSource ==
    Cardinality({source.sheet.cells[i]
                    [ColumnPosition(source.sheet.header, "Contributors")].v :
                 i \in 1..Len(source.sheet.cells)})

\* C10: once the launcher has written, snacks_fund_app.py holds the embedded
\* script, whatever it held before, and the script Streamlit runs for the
\* launcher is the embedded one: its contributor count is over all rows.
C10_LauncherRunsEmbedded ==
    /\ launcher \in {"written", "streamlit"} => scriptFile = "embedded"
    /\ launcher = "streamlit" =>
          /\ variant = "embedded"
          /\ Shown(MetricsElement, page) =>
                metrics.num_contributors = ContributorsOfSource

\* Under the launcher, a ledger whose only contributor never contributed: the
\* count is 1.
C10_Witness ==
    /\ launcher = "streamlit"
    /\ Shown(MetricsElement, page)
    /\ metrics.total_contributions = 0
    /\ metrics.num_contributors = 1

=============================================================================
